---- MODULE Spec2Model ----
(***************************************************************************)
(* Model of scripts/csvcuration.py: the curation pipeline                  *)
(*   run = loaddata -> vesiclefilter -> to_csv x2 -> aggregate_full ->     *)
(*         describedf -> to_csv                                            *)
(* and of its two table functions vesiclefilter and aggregate_full called  *)
(* on a table of their own.                                                *)
(*                                                                         *)
(* Floating point values are records [k, v]: k is "fin", "nan", "pinf" or  *)
(* "ninf"; a finite value v is held in hundredths (0.2 is Fin(20)).      *)
(* A missing CSV cell is NaN, as pandas reads it.                          *)
(***************************************************************************)
EXTENDS Integers, Sequences, FiniteSets, TLC

\* ------------------------------------------------------------- bounds
\* leaves (alpha directories) in the input tree
MaxLeaves == 2
\* rows of one eroded CSV file
MaxCsvRows == 1
\* rows of a table handed to vesiclefilter directly
MaxRows == 2
\* rows of a table handed to aggregate_full directly
MaxAggRows == 3

\* ------------------------------------------------------------- floats
Fin(n) == [k |-> "fin", v |-> n]
NaN == [k |-> "nan", v |-> 0]
PInf == [k |-> "pinf", v |-> 0]
NInf == [k |-> "ninf", v |-> 0]

IsNaN(a) == a.k = "nan"

\* a > b on IEEE doubles: false as soon as one side is NaN
Gt(a, b) ==
    /\ ~IsNaN(a)
    /\ ~IsNaN(b)
    /\ CASE a.k = "pinf" -> b.k # "pinf"
         [] a.k = "ninf" -> FALSE
         [] OTHER -> \/ b.k = "ninf"
                     \/ (b.k = "fin" /\ a.v > b.v)

\* a <= b on IEEE doubles: false as soon as one side is NaN
Le(a, b) == ~IsNaN(a) /\ ~IsNaN(b) /\ ~Gt(a, b)

\* a / b column-wise (numpy semantics: x/0 is +-inf, 0/0 is NaN, no error)
FDiv(a, b) ==
    CASE IsNaN(a) \/ IsNaN(b) -> NaN
      [] a.k # "fin" /\ b.k # "fin" -> NaN
      [] a.k # "fin" -> IF (a.k = "pinf") = (b.v >= 0) THEN PInf ELSE NInf
      [] b.k # "fin" -> Fin(0)
      [] b.v = 0 -> IF a.v = 0 THEN NaN ELSE IF a.v > 0 THEN PInf ELSE NInf
      [] OTHER -> Fin((a.v * 100) \div b.v)

\* natural logarithm in hundredths, of the magnitudes the model uses
LnTable(v) ==
    CASE v = 100 -> 0
      [] v = 200 -> 69
      [] v = 300 -> 109
      [] v = 400 -> 138
      [] v = 500 -> 160
      [] v = 800 -> 207
      [] v = 2000 -> 299
      [] v = 1000000 -> 921

\* np.log: ln(0) is -inf, ln of a negative number is NaN, no error
Ln(a) ==
    CASE IsNaN(a) -> NaN
      [] a.k = "pinf" -> PInf
      [] a.k = "ninf" -> NaN
      [] a.v = 0 -> NInf
      [] a.v < 0 -> NaN
      [] OTHER -> Fin(LnTable(a.v))

\* ------------------------------------------------------------- tables
\* a table is a sequence of rows (records); Rids(t) is the set of its row ids
Rids(t) == {t[i].rid : i \in 1..Len(t)}
RidSeq(t) == [i \in 1..Len(t) |-> t[i].rid]
SeqsUpTo(S, n) == UNION {[1..m -> S] : m \in 0..n}


\* ------------------------------------------------------ vesiclefilter
\* _df[_df['skeletonsurface'] > 0]
FilterNonNegative(df) == SelectSeq(df, LAMBDA r : ~Gt(Fin(0), r.skeletonsurface))
FilterPositive(df) == SelectSeq(df, LAMBDA r : Gt(r.skeletonsurface, Fin(0)))

\* _df[_df['volume'] > K]
VolumeAbove(df, K) == SelectSeq(df, LAMBDA r : Gt(r.volume, K))

\* FDF['rmv'], FDF['ls'], FDF['LV'], FDF['c_to_m'] of one row: the values of
\* these columns in the input, if any, are overwritten
DerivedColumns(r) ==
    [rid |-> r.rid,
     skeletonsurface |-> r.skeletonsurface,
     volume |-> r.volume,
     adj_mito_vol |-> r.adj_mito_vol,
     adj_mito_vol_fuzzy |-> r.adj_mito_vol_fuzzy,
     replicate |-> r.replicate,
     serie |-> r.serie,
     celltype |-> r.celltype,
     experiment |-> r.experiment,
     rmv |-> FDiv(r.adj_mito_vol_fuzzy, r.adj_mito_vol),
     ls |-> Ln(r.adj_mito_vol),
     LV |-> Ln(r.volume),
     c_to_m |-> FDiv(r.volume, r.adj_mito_vol)]

AddDerived(df) == [i \in 1..Len(df) |-> DerivedColumns(df[i])]

\* FDF[(FDF['ls'] <= LS) & (FDF['rmv'] <= RMV)], then VDF[VDF['ls'] > log(minsize)]
KeepSelect(FDF, LS, RMV, minsize_vesicle) ==
    LET VDF == SelectSeq(FDF, LAMBDA r : Le(r.ls, LS) /\ Le(r.rmv, RMV))
    IN  SelectSeq(VDF, LAMBDA r : Gt(r.ls, Ln(minsize_vesicle)))

\* FDF[(FDF['ls'] > LS) | (FDF['rmv'] > RMV)]
DropSelectAnd(FDF, LS, RMV) == SelectSeq(FDF, LAMBDA r : Gt(r.ls, LS) /\ Gt(r.rmv, RMV))
DropSelect(FDF, LS, RMV) == SelectSeq(FDF, LAMBDA r : Gt(r.ls, LS) \/ Gt(r.rmv, RMV))

\* The result of a call: the table returned, or the exception raised.
Returned(df) == [status |-> "ok", df |-> df]
Raised(exc) == [status |-> exc, df |-> <<>>]
NotCalled == [status |-> "notcalled", df |-> <<>>]

\* vesiclefilter(_df, K, LS, RMV, vesicle, minsize_vesicle). With vesicle=False
\* the log line divides len(Filtered_Large_DF) by len(FDF), two Python ints.
vesiclefilter(_df, K, LS, RMV, vesicle, minsize_vesicle) ==
    LET FDF == AddDerived(VolumeAbove(FilterPositive(_df), K))
    IN  IF vesicle
        THEN Returned(KeepSelect(FDF, LS, RMV, minsize_vesicle))
        ELSE IF Len(FDF) = 0
             THEN Raised("ZeroDivisionError")
             ELSE Returned(DropSelect(FDF, LS, RMV))

\* ----------------------------------------------------------- loaddata
\* A leaf of the input tree is one alpha directory
\*   <replicate>/<celltype>/series<serie>/<alpha>/ with the CSV files that match
\*   *eroded*.csv in it: [replicate, celltype, serie, alpha, csvs].
\* The tree is the sequence of its leaves in the order the walk visits them.

\* av != alphav -> continue; len(csvs) != 1 -> continue
LeafLoadedAny(leaf, alphav) == leaf.alpha = alphav /\ Len(leaf.csvs) >= 1
LeafLoaded(leaf, alphav) == leaf.alpha = alphav /\ Len(leaf.csvs) = 1

\* pd.read_csv(csvs[0]) and the three provenance columns; rid is the identity
\* of the row (leaf number, line of the file)
ReadCsv(leaf, n) ==
    LET csv == leaf.csvs[1]
    IN  [j \in 1..Len(csv) |->
            [rid |-> <<n, j>>,
             skeletonsurface |-> csv[j].skeletonsurface,
             volume |-> csv[j].volume,
             adj_mito_vol |-> csv[j].adj_mito_vol,
             adj_mito_vol_fuzzy |-> csv[j].adj_mito_vol_fuzzy,
             replicate |-> leaf.replicate,
             serie |-> leaf.serie,
             celltype |-> leaf.celltype]]

\* the four nested loops: the list udfs after the leaves n..Len(tree), or the
\* AssertionError of assert(snr > 0)
RECURSIVE Walk(_, _, _, _)
Walk(tree, n, alphav, udfs) ==
    IF n > Len(tree) THEN Returned(udfs)
    ELSE IF ~(tree[n].serie > 0) THEN Raised("AssertionError")
    ELSE IF LeafLoaded(tree[n], alphav)
         THEN Walk(tree, n + 1, alphav, Append(udfs, ReadCsv(tree[n], n)))
         ELSE Walk(tree, n + 1, alphav, udfs)

\* pd.concat(udfs)
RECURSIVE Concat(_)
Concat(udfs) == IF udfs = <<>> THEN <<>> ELSE Head(udfs) \o Concat(Tail(udfs))

\* _DF['rmv'] = fuzzy / vol ; _DF['ls'] = np.log(vol)
WithRmvLs(r) ==
    [rid |-> r.rid,
     skeletonsurface |-> r.skeletonsurface,
     volume |-> r.volume,
     adj_mito_vol |-> r.adj_mito_vol,
     adj_mito_vol_fuzzy |-> r.adj_mito_vol_fuzzy,
     replicate |-> r.replicate,
     serie |-> r.serie,
     celltype |-> r.celltype,
     rmv |-> FDiv(r.adj_mito_vol_fuzzy, r.adj_mito_vol),
     ls |-> Ln(r.adj_mito_vol)]

\* _DF.fillna(0): every NaN cell of every column becomes 0 (an infinity stays)
Fill0(a) == IF IsNaN(a) THEN Fin(0) ELSE a
FillNa(r) ==
    [rid |-> r.rid,
     skeletonsurface |-> Fill0(r.skeletonsurface),
     volume |-> Fill0(r.volume),
     adj_mito_vol |-> Fill0(r.adj_mito_vol),
     adj_mito_vol_fuzzy |-> Fill0(r.adj_mito_vol_fuzzy),
     replicate |-> r.replicate,
     serie |-> r.serie,
     celltype |-> r.celltype,
     rmv |-> Fill0(r.rmv),
     ls |-> Fill0(r.ls)]

\* _DF[_DF['skeletonsurface'] > 0]
LoadPositive(df) == SelectSeq(df, LAMBDA r : Gt(r.skeletonsurface, Fin(0)))

\* _DF['experiment'] = path.split(os.path.sep)[-1]
WithExperiment(r, experiment) ==
    [rid |-> r.rid,
     skeletonsurface |-> r.skeletonsurface,
     volume |-> r.volume,
     adj_mito_vol |-> r.adj_mito_vol,
     adj_mito_vol_fuzzy |-> r.adj_mito_vol_fuzzy,
     replicate |-> r.replicate,
     serie |-> r.serie,
     celltype |-> r.celltype,
     rmv |-> r.rmv,
     ls |-> r.ls,
     experiment |-> experiment]

\* the table built from a non-empty udfs
Combine(udfs, experiment) ==
    LET _DF == Concat(udfs)
        filled == [i \in 1..Len(_DF) |-> FillNa(WithRmvLs(_DF[i]))]
        kept == LoadPositive(filled)
    IN  [i \in 1..Len(kept) |-> WithExperiment(kept[i], experiment)]

\* exit(n) ends the process with status n mod 256
ExitStatus(n) == n % 256
Exited(n) == [status |-> "exit", df |-> <<>>, code |-> ExitStatus(n)]

\* loaddata(path, alphav): path is the tree and the name of its top directory
loaddataNoExit(tree, experiment, alphav) ==
    LET w == Walk(tree, 1, alphav, <<>>)
    IN  IF w.status # "ok" THEN w
        ELSE IF Len(w.df) = 0 THEN Returned(<<>>)
        ELSE Returned(Combine(w.df, experiment))
loaddata(tree, experiment, alphav) ==
    LET w == Walk(tree, 1, alphav, <<>>)
    IN  IF w.status # "ok" THEN w
        ELSE IF Len(w.df) = 0 THEN Exited(0 - 1)
        ELSE Returned(Combine(w.df, experiment))

\* ----------------------------------------------------- aggregate_full
\* df.groupby(['celltype', 'serie', 'replicate', 'experiment'])
GroupKeyNoSerie(r) == <<r.celltype, 1, r.replicate, r.experiment>>
GroupKey(r) == <<r.celltype, r.serie, r.replicate, r.experiment>>

\* groupby sorts the group keys; the strings of the model in their order
StrRank(s) ==
    CASE s = "A" -> 1
      [] s = "B" -> 2
      [] s = "exp" -> 1
      [] s = "exp2" -> 2

KeyLess(a, b) ==
    LET x == <<StrRank(a[1]), a[2], a[3], StrRank(a[4])>>
        y == <<StrRank(b[1]), b[2], b[3], StrRank(b[4])>>
    IN  \E i \in 1..4 : x[i] < y[i] /\ \A j \in 1..(i - 1) : x[j] = y[j]

RECURSIVE SortKeys(_)
SortKeys(S) ==
    IF S = {} THEN <<>>
    ELSE LET k == CHOOSE m \in S : \A o \in S : o = m \/ KeyLess(m, o)
         IN  <<k>> \o SortKeys(S \ {k})

\* the rows of a group, and the 'count' statistic of its volume column: the
\* number of its cells that are not NaN
GroupRows(df, key) == {i \in 1..Len(df) : GroupKey(df[i]) = key}
VolumeCount(df, key) == Cardinality({i \in GroupRows(df, key) : ~IsNaN(df[i].volume)})

\* aggregate_full(df): one row per group, after reset_index and the flattening
\* of the column names; of the statistics the model keeps 'volume count' and
\* its alias 'number of contacts'
aggregate_full(df) ==
    LET keys == SortKeys({GroupKey(df[i]) : i \in 1..Len(df)})
    IN  [g \in 1..Len(keys) |->
            [celltype |-> keys[g][1],
             serie |-> keys[g][2],
             replicate |-> keys[g][3],
             experiment |-> keys[g][4],
             volume_count |-> VolumeCount(df, keys[g]),
             number_of_contacts |-> VolumeCount(df, keys[g])]]

\* ------------------------------------------------------------- inputs
\* command line defaults (hundredths) and the constants of the call in run
DefaultAlpha == 5
DefaultLnsize == 900
DefaultMitoint == 20
RunK == 200
RunMinsize == 800

CsvRow(ss, vol, amv, fz) ==
    [skeletonsurface |-> ss, volume |-> vol, adj_mito_vol |-> amv,
     adj_mito_vol_fuzzy |-> fz]

\* lines of the eroded CSV files: a contact next to a large mitochondrion, the
\* same with skeletonsurface zero and missing, a contact whose adj_mito_vol
\* cell is missing, and a contact next to a small and faint object (a vesicle)
CsvCells ==
    {CsvRow(Fin(100), Fin(300), Fin(1000000), Fin(500000)),
     CsvRow(Fin(0), Fin(300), Fin(1000000), Fin(500000)),
     CsvRow(NaN, Fin(300), Fin(1000000), Fin(500000)),
     CsvRow(Fin(100), Fin(300), NaN, Fin(500000)),
     CsvRow(Fin(100), Fin(300), Fin(2000), Fin(100))}

CsvFiles == SeqsUpTo(CsvCells, MaxCsvRows)
OneGoodFile == <<CsvRow(Fin(100), Fin(300), Fin(1000000), Fin(500000))>>

\* what an alpha directory can hold: another alpha than the requested one, no
\* eroded CSV file, two of them, or exactly one
LeafContents ==
    {[alpha |-> 2 * DefaultAlpha, csvs |-> <<OneGoodFile>>],
     [alpha |-> DefaultAlpha, csvs |-> <<>>],
     [alpha |-> DefaultAlpha, csvs |-> <<OneGoodFile, OneGoodFile>>]}
    \cup {[alpha |-> DefaultAlpha, csvs |-> <<f>>] : f \in CsvFiles}

\* the path of the n-th leaf: 1/A/series1, 1/A/series2, 2/B/series1, ...
LeafAt(n, c) ==
    [replicate |-> (n + 1) \div 2,
     celltype |-> IF ((n + 1) \div 2) % 2 = 1 THEN "A" ELSE "B",
     serie |-> ((n - 1) % 2) + 1,
     alpha |-> c.alpha,
     csvs |-> c.csvs]

Trees ==
    {[n \in 1..Len(cs) |-> LeafAt(n, cs[n])] : cs \in SeqsUpTo(LeafContents, MaxLeaves)}

\* rows of a table handed to vesiclefilter: the skeletonsurface and volume
\* cases next to a large mitochondrion, and the adj_mito_vol x fuzzy cases
FilterCells ==
    {CsvRow(ss, Fin(300), Fin(1000000), Fin(500000)) :
        ss \in {Fin(0 - 100), Fin(0), NaN}}
    \cup {CsvRow(Fin(100), vol, Fin(1000000), Fin(500000)) :
        vol \in {Fin(200), Fin(400), NaN}}
    \cup {CsvRow(Fin(100), Fin(300), amv, fz) :
        amv \in {NaN, Fin(0), Fin(500), Fin(2000), Fin(1000000)},
        fz \in {Fin(0), Fin(500000)}}
    \cup {CsvRow(Fin(100), Fin(300), Fin(2000), NaN)}

\* the values of the rmv and ls columns the table already has
PreVals == {NaN, Fin(9900)}

FilterRow(c, n, pre) ==
    [rid |-> <<0, n>>,
     skeletonsurface |-> c.skeletonsurface,
     volume |-> c.volume,
     adj_mito_vol |-> c.adj_mito_vol,
     adj_mito_vol_fuzzy |-> c.adj_mito_vol_fuzzy,
     replicate |-> 1,
     serie |-> 1,
     celltype |-> "A",
     rmv |-> pre,
     ls |-> pre,
     experiment |-> "exp"]

FilterTables ==
    {[n \in 1..Len(cs) |-> FilterRow(cs[n], n, pre)] :
        cs \in SeqsUpTo(FilterCells, MaxRows), pre \in PreVals}

\* (K, LS, RMV) of a direct call
FilterParams ==
    {[K |-> Fin(200), LS |-> Fin(900), RMV |-> Fin(20)],
     [K |-> Fin(300), LS |-> Fin(900), RMV |-> Fin(20)],
     [K |-> Fin(200), LS |-> Fin(250), RMV |-> Fin(50)]}

\* rows of a table handed to aggregate_full: five groups that differ in one
\* key each, volume present or missing
AggKeys ==
    {<<"A", 1, 1, "exp">>, <<"B", 1, 1, "exp">>, <<"A", 2, 1, "exp">>,
     <<"A", 1, 2, "exp">>, <<"A", 1, 1, "exp2">>}

AggRow(key, vol, n) ==
    [rid |-> <<0, n>>,
     skeletonsurface |-> Fin(100),
     volume |-> vol,
     adj_mito_vol |-> Fin(1000000),
     adj_mito_vol_fuzzy |-> Fin(500000),
     replicate |-> key[3],
     serie |-> key[2],
     celltype |-> key[1],
     experiment |-> key[4],
     rmv |-> Fin(50),
     ls |-> Fin(921),
     LV |-> Ln(vol),
     c_to_m |-> FDiv(vol, Fin(1000000))]

AggTables ==
    {[n \in 1..Len(cs) |-> AggRow(cs[n][1], cs[n][2], n)] :
        cs \in SeqsUpTo(AggKeys \X {Fin(300), NaN}, MaxAggRows)}

\* -------------------------------------------------------------- state
VARIABLES
    entry,       \* what is executed: "run", "vesiclefilter" or "aggregate_full"
    pc,          \* the statement of run to execute next, or how it ended
    tree,        \* args.inputdirectory: the leaves of the input tree
    dataframe,   \* run: the table loaddata returned
    filtered,    \* run: the table vesiclefilter returned
    aggregated,  \* run: the table aggregate_full returned
    files,       \* the files written to args.outputdirectory
    log,         \* the steps of run completed so far, in order
    exitcode,    \* the exit status once the process has ended
    call,        \* direct call: the arguments [df, K, LS, RMV]
    retKeep,     \* direct call: result of vesiclefilter(..., vesicle=True)
    retDrop,     \* direct call: result of vesiclefilter(..., vesicle=False)
    retAgg       \* direct call: result of aggregate_full(df)

vars == <<entry, pc, tree, dataframe, filtered, aggregated, files, log,
          exitcode, call, retKeep, retDrop, retAgg>>

NoCall == [df |-> <<>>, K |-> Fin(0), LS |-> Fin(0), RMV |-> Fin(0)]

Init ==
    /\ entry \in {"run", "vesiclefilter", "aggregate_full"}
    /\ pc = IF entry = "run" THEN "load" ELSE "call"
    /\ tree \in IF entry = "run" THEN Trees ELSE {<<>>}
    /\ dataframe = <<>>
    /\ filtered = <<>>
    /\ aggregated = <<>>
    /\ files = {}
    /\ log = <<>>
    /\ exitcode = 0
    /\ call \in CASE entry = "run" -> {NoCall}
                  [] entry = "vesiclefilter" ->
                        {[df |-> t, K |-> p.K, LS |-> p.LS, RMV |-> p.RMV] :
                            t \in FilterTables, p \in FilterParams}
                  [] entry = "aggregate_full" ->
                        {[df |-> t, K |-> Fin(0), LS |-> Fin(0), RMV |-> Fin(0)] :
                            t \in AggTables}
    /\ retKeep = NotCalled
    /\ retDrop = NotCalled
    /\ retAgg = NotCalled

\* ---------------------------------------------------------------- run
\* the statements of run in program order
StepAfterEarlyAggregate(step) ==
    CASE step = "load" -> "filter"
      [] step = "filter" -> "aggregate"
      [] step = "aggregate" -> "describe"
      [] step = "describe" -> "write_aggregated"
      [] step = "write_aggregated" -> "write_unfiltered"
      [] step = "write_unfiltered" -> "write_filtered"
      [] step = "write_filtered" -> "done"
StepAfter(step) ==
    CASE step = "load" -> "filter"
      [] step = "filter" -> "write_unfiltered"
      [] step = "write_unfiltered" -> "write_filtered"
      [] step = "write_filtered" -> "aggregate"
      [] step = "aggregate" -> "describe"
      [] step = "describe" -> "write_aggregated"
      [] step = "write_aggregated" -> "done"

\* the step is done: on to the next statement; after the last one the process
\* ends with status 0
Advance(step) ==
    /\ pc' = StepAfter(step)
    /\ log' = Append(log, step)
    /\ exitcode' = 0

\* an exception nobody catches ends the process with status 1
Crash ==
    /\ pc' = "crashed"
    /\ exitcode' = 1
    /\ UNCHANGED log

\* dataframe = loaddata(args.inputdirectory, args.alpha)
Load ==
    /\ entry = "run" /\ pc = "load"
    /\ LET r == loaddata(tree, "exp", DefaultAlpha)
       IN  CASE r.status = "ok" ->
                    /\ dataframe' = r.df
                    /\ Advance("load")
             [] r.status = "exit" ->
                    /\ pc' = "exited"
                    /\ exitcode' = r.code
                    /\ UNCHANGED <<dataframe, log>>
             [] OTHER -> Crash /\ UNCHANGED dataframe
    /\ UNCHANGED <<entry, tree, filtered, aggregated, files, call, retKeep,
                   retDrop, retAgg>>

\* filtered = vesiclefilter(dataframe, 2, args.lnsize, args.mitoint, False, 8)
Filter ==
    /\ entry = "run" /\ pc = "filter"
    /\ LET r == vesiclefilter(dataframe, Fin(RunK), Fin(DefaultLnsize),
                              Fin(DefaultMitoint), FALSE, Fin(RunMinsize))
       IN  IF r.status = "ok"
           THEN filtered' = r.df /\ Advance("filter")
           ELSE Crash /\ UNCHANGED filtered
    /\ UNCHANGED <<entry, tree, dataframe, aggregated, files, call, retKeep,
                   retDrop, retAgg>>

\* <table>.to_csv(os.path.join(args.outputdirectory, name)): the file is
\* written, or the write raises OSError
Write(step, name) ==
    /\ entry = "run" /\ pc = step
    /\ \/ files' = files \cup {name} /\ Advance(step)
       \/ Crash /\ UNCHANGED files
    /\ UNCHANGED <<entry, tree, dataframe, filtered, aggregated, call, retKeep,
                   retDrop, retAgg>>

WriteUnfiltered == Write("write_unfiltered", "contacts_unfiltered.csv")
WriteFiltered == Write("write_filtered", "contacts_filtered_novesicles.csv")
WriteAggregated == Write("write_aggregated", "contacts_aggregated.csv")

\* aggregated = aggregate_full(filtered)
Aggregate ==
    /\ entry = "run" /\ pc = "aggregate"
    /\ aggregated' = aggregate_full(filtered)
    /\ Advance("aggregate")
    /\ UNCHANGED <<entry, tree, dataframe, filtered, files, call, retKeep,
                   retDrop, retAgg>>

\* describedf(aggregated): works on a copy and only logs
Describe ==
    /\ entry = "run" /\ pc = "describe"
    /\ Advance("describe")
    /\ UNCHANGED <<entry, tree, dataframe, filtered, aggregated, files, call,
                   retKeep, retDrop, retAgg>>

\* ------------------------------------------------------- direct calls
\* vesiclefilter(df, K, LS, RMV, vesicle, 8) on a table of the caller
CallVesiclefilter(vesicle) ==
    /\ entry = "vesiclefilter" /\ pc = "call"
    /\ (IF vesicle THEN retKeep ELSE retDrop) = NotCalled
    /\ LET r == vesiclefilter(call.df, call.K, call.LS, call.RMV, vesicle,
                              Fin(RunMinsize))
       IN  IF vesicle
           THEN retKeep' = r /\ UNCHANGED retDrop
           ELSE retDrop' = r /\ UNCHANGED retKeep
    /\ UNCHANGED <<entry, pc, tree, dataframe, filtered, aggregated, files, log,
                   exitcode, call, retAgg>>

CallKeep == CallVesiclefilter(TRUE)
CallDrop == CallVesiclefilter(FALSE)

\* aggregate_full(df) on a table of the caller
CallAggregate ==
    /\ entry = "aggregate_full" /\ pc = "call"
    /\ retAgg = NotCalled
    /\ retAgg' = Returned(aggregate_full(call.df))
    /\ UNCHANGED <<entry, pc, tree, dataframe, filtered, aggregated, files, log,
                   exitcode, call, retKeep, retDrop>>

Next ==
    \/ Load
    \/ Filter
    \/ WriteUnfiltered
    \/ WriteFiltered
    \/ Aggregate
    \/ Describe
    \/ WriteAggregated
    \/ CallKeep
    \/ CallDrop
    \/ CallAggregate

Spec == Init /\ [][Next]_vars

\* ------------------------------------------------------------- claims
Positive(df) == \A i \in 1..Len(df) : Gt(df[i].skeletonsurface, Fin(0))
Done(step) == \E i \in 1..Len(log) : log[i] = step
InputHas(df, P(_)) == \E i \in 1..Len(df) : P(df[i])

\* C1: every row of the table loaddata returns has skeletonsurface > 0, and so
\* has every row vesiclefilter returns, in both modes and whatever its input
\* holds; hence every row handed to aggregate_full in run has it too.
C1_SkeletonPositive ==
    /\ Positive(dataframe)
    /\ Positive(filtered)
    /\ Positive(retKeep.df)
    /\ Positive(retDrop.df)

\* C1 witness: run is about to aggregate a non-empty filtered table although a
\* CSV file that was read holds a row whose skeletonsurface is zero or missing.
C1_Witness ==
    /\ pc = "aggregate"
    /\ filtered # <<>>
    /\ \E n \in 1..Len(tree) :
          /\ tree[n].alpha = DefaultAlpha
          /\ Len(tree[n].csvs) = 1
          /\ InputHas(tree[n].csvs[1], LAMBDA c : ~Gt(c.skeletonsurface, Fin(0)))

\* the rows of the input that are filterable: skeletonsurface > 0, volume > K
C2_Filterable(r) == Gt(r.skeletonsurface, Fin(0)) /\ Gt(r.volume, call.K)
C2_Candidate(r) ==
    /\ C2_Filterable(r)
    /\ Le(Ln(r.adj_mito_vol), call.LS)
    /\ Le(FDiv(r.adj_mito_vol_fuzzy, r.adj_mito_vol), call.RMV)

\* C2: the outputs of the two modes on one input are disjoint, and when every
\* keep-vesicle candidate has ls > ln(minsize_vesicle) their union is the set of
\* input rows with skeletonsurface > 0 and volume > K.
C2_Partition ==
    (retKeep.status = "ok" /\ retDrop.status = "ok") =>
        /\ Rids(retKeep.df) \cap Rids(retDrop.df) = {}
        /\ (\A i \in 1..Len(call.df) :
                C2_Candidate(call.df[i]) =>
                    Gt(Ln(call.df[i].adj_mito_vol), Ln(Fin(RunMinsize))))
           => Rids(retKeep.df) \cup Rids(retDrop.df)
                = {call.df[i].rid : i \in {j \in 1..Len(call.df) :
                                             C2_Filterable(call.df[j])}}

C3_Selected(r, K, LS, RMV) ==
    /\ Gt(r.skeletonsurface, Fin(0))
    /\ Gt(r.volume, K)
    /\ \/ Gt(Ln(r.adj_mito_vol), LS)
       \/ Gt(FDiv(r.adj_mito_vol_fuzzy, r.adj_mito_vol), RMV)

C3_SameRows(in, out, K, LS, RMV) ==
    /\ RidSeq(out) = RidSeq(SelectSeq(in, LAMBDA r : C3_Selected(r, K, LS, RMV)))
    /\ \A i \in 1..Len(out) : \E j \in 1..Len(in) :
          /\ in[j].rid = out[i].rid
          /\ in[j].skeletonsurface = out[i].skeletonsurface
          /\ in[j].volume = out[i].volume
          /\ in[j].adj_mito_vol = out[i].adj_mito_vol
          /\ in[j].adj_mito_vol_fuzzy = out[i].adj_mito_vol_fuzzy

\* C3: a call of vesiclefilter with vesicle=False returns exactly the input
\* rows with skeletonsurface > 0, volume > K and (ln(adj_mito_vol) > LS or
\* adj_mito_vol_fuzzy / adj_mito_vol > RMV), in input order, once each, whatever
\* rmv and ls columns the input has.
C3_DropReturnsSelected ==
    retDrop.status # "notcalled" =>
        /\ retDrop.status = "ok"
        /\ C3_SameRows(call.df, retDrop.df, call.K, call.LS, call.RMV)

C4_Tuple(r) == <<r.celltype, r.serie, r.replicate, r.experiment>>
C4_OnePerTuple(in, out) ==
    /\ \A i \in 1..Len(in) :
          Cardinality({g \in 1..Len(out) : C4_Tuple(out[g]) = C4_Tuple(in[i])}) = 1
    /\ \A g \in 1..Len(out) : \E i \in 1..Len(in) : C4_Tuple(in[i]) = C4_Tuple(out[g])

\* C4: the table aggregate_full returns has exactly one row for each
\* (celltype, serie, replicate, experiment) tuple of its input and no other row.
C4_OneRowPerGroup ==
    /\ retAgg.status = "ok" => C4_OnePerTuple(call.df, retAgg.df)
    /\ Done("aggregate") => C4_OnePerTuple(filtered, aggregated)

\* C4 witness: aggregate_full returned several groups for a table in which one
\* group has two rows.
C4_Witness ==
    /\ retAgg.status = "ok"
    /\ Len(retAgg.df) >= 2
    /\ \E i, j \in 1..Len(call.df) :
          i # j /\ C4_Tuple(call.df[i]) = C4_Tuple(call.df[j])

C5_GroupSize(in, out) ==
    \A g \in 1..Len(out) :
        out[g].number_of_contacts
            = Cardinality({i \in 1..Len(in) : C4_Tuple(in[i]) = C4_Tuple(out[g])})

\* C5: 'number of contacts' of every group aggregate_full returns is the number
\* of input rows of the group, also when a volume cell of the group is missing.
C5_ContactsIsGroupSize ==
    /\ retAgg.status = "ok" => C5_GroupSize(call.df, retAgg.df)
    /\ Done("aggregate") => C5_GroupSize(filtered, aggregated)

C6_NoTable ==
    \A n \in 1..Len(tree) : tree[n].alpha # DefaultAlpha \/ Len(tree[n].csvs) # 1

\* C6: when the walk collects no table, loaddata does not return (no table,
\* not even an empty one, reaches run): the process has ended with a non-zero
\* exit status and none of the three files is written.
C6_NoDataAborts ==
    (entry = "run" /\ pc # "load" /\ C6_NoTable) =>
        /\ pc = "exited"
        /\ exitcode # 0
        /\ log = <<>>
        /\ files = {}

\* C6 witness: the process has exited on a tree with a leaf of another alpha
\* and a leaf with two eroded CSV files.
C6_Witness ==
    /\ pc = "exited"
    /\ \E n \in 1..Len(tree) : tree[n].alpha # DefaultAlpha
    /\ \E n \in 1..Len(tree) : Len(tree[n].csvs) = 2

C7_Good(n) == tree[n].alpha = DefaultAlpha /\ Len(tree[n].csvs) = 1
C7_Rows ==
    UNION {{<<n, j>> : j \in {m \in 1..Len(tree[n].csvs[1]) :
                                Gt(tree[n].csvs[1][m].skeletonsurface, Fin(0))}} :
            n \in {m \in 1..Len(tree) : C7_Good(m)}}

\* C7: a leaf with no or several eroded CSV files is skipped and the walk goes
\* on: the table loaddata returns holds exactly the rows with
\* skeletonsurface > 0 of the leaves with exactly one such file, once each and
\* tagged with the replicate, serie and celltype of their own leaf.
C7_SkipBadLeaf ==
    Done("load") =>
        /\ Rids(dataframe) = C7_Rows
        /\ Len(dataframe) = Cardinality(C7_Rows)
        /\ \A i \in 1..Len(dataframe) :
              LET n == dataframe[i].rid[1]
                  c == tree[n].csvs[1][dataframe[i].rid[2]]
              IN  /\ dataframe[i].replicate = tree[n].replicate
                  /\ dataframe[i].serie = tree[n].serie
                  /\ dataframe[i].celltype = tree[n].celltype
                  /\ dataframe[i].volume = Fill0(c.volume)
                  /\ dataframe[i].skeletonsurface = c.skeletonsurface

\* C7 witness: loaddata returned rows of the second leaf after it skipped a
\* first leaf that has two eroded CSV files.
C7_Witness ==
    /\ Done("load")
    /\ Len(tree) = 2
    /\ tree[1].alpha = DefaultAlpha
    /\ Len(tree[1].csvs) = 2
    /\ dataframe # <<>>
    /\ \A i \in 1..Len(dataframe) : dataframe[i].rid[1] = 2

\* C8: a call of vesiclefilter never raises, in either mode.
C8_NoErrorPath ==
    /\ retKeep.status \in {"notcalled", "ok"}
    /\ retDrop.status \in {"notcalled", "ok"}

C9_Program ==
    <<"load", "filter", "write_unfiltered", "write_filtered", "aggregate",
      "describe", "write_aggregated">>
C9_FileOf(step) ==
    CASE step = "write_unfiltered" -> {"contacts_unfiltered.csv"}
      [] step = "write_filtered" -> {"contacts_filtered_novesicles.csv"}
      [] step = "write_aggregated" -> {"contacts_aggregated.csv"}
      [] OTHER -> {}

\* C9: the steps of run happen in the order load, filter, write unfiltered,
\* write filtered, aggregate, describe, write aggregated; the files on disk
\* are those of the write steps completed, so contacts_aggregated.csv is there
\* only after the two others; and a file once written stays (no rollback).
C9_StepOrder ==
    /\ [](/\ Len(log) <= Len(C9_Program)
          /\ \A i \in 1..Len(log) : log[i] = C9_Program[i]
          /\ files = UNION {C9_FileOf(log[i]) : i \in 1..Len(log)}
          /\ ("contacts_aggregated.csv" \in files =>
                 {"contacts_unfiltered.csv", "contacts_filtered_novesicles.csv"}
                     \subseteq files))
    /\ [][files \subseteq files']_vars

\* C9 witness: run crashed in a later step with contacts_unfiltered.csv and
\* contacts_filtered_novesicles.csv on disk and contacts_aggregated.csv not.
C9_Witness ==
    /\ pc = "crashed"
    /\ files = {"contacts_unfiltered.csv", "contacts_filtered_novesicles.csv"}
    /\ Done("describe")

\* C10: every row vesiclefilter returns for the table of loaddata carries the
\* rmv and ls the loader gave that row.
C10_SameRmvLs ==
    Done("filter") =>
        \A i \in 1..Len(filtered) : \A j \in 1..Len(dataframe) :
            dataframe[j].rid = filtered[i].rid =>
                /\ filtered[i].rmv = dataframe[j].rmv
                /\ filtered[i].ls = dataframe[j].ls

====
